---------------------------- MODULE Spec2Model ----------------------------
(***************************************************************************)
(* The loan page of life-tracker (src/unnamed/part_000) and the            *)
(* loan_payments table it writes to                                        *)
(* (src/supabase_migrations/create_loan_payments.sql).                     *)
(*                                                                         *)
(* Money.  The page computes with IEEE doubles and the table stores        *)
(* NUMERIC(10, 2).  Amounts are integers counting 1/SubCent of a cent:     *)
(* every arithmetic result is rounded to the nearest such unit (the        *)
(* model's stand-in for a double's rounding), and the table rounds what it *)
(* is given to whole cents.                                                *)
(*                                                                         *)
(* Dates.  Every Date of the page is a UTC midnight (new Date("yyyy-mm-dd")*)
(* and additions of whole multiples of 24 h, read back with toISOString),  *)
(* so a date is the number of days since START_DATE.                       *)
(***************************************************************************)
EXTENDS Integers, Sequences, FiniteSets, Bags, TLC

----------------------------------------------------------------------------
(* Bounds of the model *)

\* units per cent: the resolution at which fractions of a cent are kept
SubCent == 100
\* rows ever inserted into loan_payments (ids 1..MaxRows)
MaxRows == 2
\* requests the user may have outstanding when starting another one
MaxInFlight == 2
\* the user checks one of the first MaxCheckIdx upcoming payments
MaxCheckIdx == 2

----------------------------------------------------------------------------
(* Units and arithmetic *)

CENT == SubCent
DOLLAR == 100 * CENT

Abs(x) == IF x < 0 THEN -x ELSE x
Min(a, b) == IF a < b THEN a ELSE b
Max(a, b) == IF a > b THEN a ELSE b

\* n / d rounded to the nearest integer, halves away from zero (d > 0)
RoundDiv(n, d) ==
    IF n >= 0 THEN (n + d \div 2) \div d
              ELSE -(((-n) + d \div 2) \div d)

\* a * n / d rounded to the nearest integer (d > 0), without ever forming
\* the full product a * n
MulDiv(a, n, d) ==
    LET q == Abs(a) \div d
        r == Abs(a) % d
        m == IF a < 0 THEN -n ELSE n
    IN  q * m + RoundDiv(r * m, d)

----------------------------------------------------------------------------
(* Loan constants *)

PRINCIPAL == 22000 * DOLLAR
\* ANNUAL_RATE = 0.05, as a percentage
ANNUAL_RATE_PCT == 5
\* the 26 of BIWEEKLY_RATE = ANNUAL_RATE / 26
PERIODS_PER_YEAR == 26
\* the 365 of dailyRate = ANNUAL_RATE / 365
DAYS_PER_YEAR == 365
PAYMENT_AMOUNT == 275 * DOLLAR
\* new Date("2026-03-06"), the origin of the day count
START_DATE == 0
\* the 14 of 14 * 24 * 60 * 60 * 1000
PERIOD_DAYS == 14
\* calculateSchedule(remainingBalance, nextPaymentDate, 20)
UPCOMING_COUNT == 20
\* calculateSchedule(remainingBalance, nextPaymentDate, 1000)
FULL_COUNT == 1000

\* mutant: the daily rate of the extra-payment path applied to a period of
\* 14 days, instead of ANNUAL_RATE / 26
BiweeklyInterestDaily(balance) ==
    MulDiv(balance, ANNUAL_RATE_PCT * PERIOD_DAYS, 100 * DAYS_PER_YEAR)

\* balance * BIWEEKLY_RATE
BiweeklyInterest(balance) ==
    MulDiv(balance, ANNUAL_RATE_PCT, 100 * PERIODS_PER_YEAR)

\* the loop body without Math.min and Math.max: the whole payment is taken
\* off the balance, also past zero
ScheduleEntryOverdrawn(balance, date) ==
    LET interest == BiweeklyInterest(balance)
        principal == PAYMENT_AMOUNT - interest
        payment == interest + principal
    IN  [date |-> date, amount |-> payment, interest |-> interest,
         principal |-> principal, balance |-> balance - principal]

\* the loop body with the principal kept from going below zero
ScheduleEntryPrincipalFloored(balance, date) ==
    LET interest == BiweeklyInterest(balance)
        principal == Max(0, Min(PAYMENT_AMOUNT - interest, balance))
        payment == interest + principal
    IN  [date |-> date, amount |-> payment, interest |-> interest,
         principal |-> principal, balance |-> Max(0, balance - principal)]

\* one pass of the loop body of calculateSchedule
ScheduleEntry(balance, date) ==
    LET interest == BiweeklyInterest(balance)
        principal == Min(PAYMENT_AMOUNT - interest, balance)
        payment == interest + principal
    IN  [date |-> date, amount |-> payment, interest |-> interest,
         principal |-> principal, balance |-> Max(0, balance - principal)]

\* the loop with i <= count as its bound
RECURSIVE ScheduleLoopInclusive(_, _, _, _, _)
ScheduleLoopInclusive(schedule, balance, currentDate, i, count) ==
    IF i > count \/ balance <= 0 THEN schedule
    ELSE LET e == ScheduleEntry(balance, currentDate)
         IN  ScheduleLoopInclusive(Append(schedule, e), e.balance,
                                   currentDate + PERIOD_DAYS, i + 1, count)

RECURSIVE ScheduleLoop(_, _, _, _, _)
ScheduleLoop(schedule, balance, currentDate, i, count) ==
    IF i >= count \/ balance <= 0
    THEN schedule
    ELSE LET e == ScheduleEntry(balance, currentDate)
         IN  ScheduleLoop(Append(schedule, e), e.balance,
                          currentDate + PERIOD_DAYS, i + 1, count)

calculateSchedule(startBalance, startDate, count) ==
    ScheduleLoop(<<>>, startBalance, startDate, 0, count)

----------------------------------------------------------------------------
(* The extra-payment form: what the user types and what the page reads *)

Digits == {"0", "1", "2", "3", "4", "5", "6", "7", "8", "9"}
DigitVal(c) ==
    CASE c = "0" -> 0 [] c = "1" -> 1 [] c = "2" -> 2 [] c = "3" -> 3
      [] c = "4" -> 4 [] c = "5" -> 5 [] c = "6" -> 6 [] c = "7" -> 7
      [] c = "8" -> 8 [] c = "9" -> 9

\* the length of the longest prefix of s made of digits only
RECURSIVE DigitRun(_)
DigitRun(s) ==
    IF s = <<>> \/ Head(s) \notin Digits THEN 0 ELSE 1 + DigitRun(Tail(s))

\* the digits d1 d2 ... read as the integer d1 d2 ...
RECURSIVE DigitsValue(_, _)
DigitsValue(s, acc) ==
    IF s = <<>> THEN acc ELSE DigitsValue(Tail(s), 10 * acc + DigitVal(Head(s)))

\* the digits d1 d2 ... read as the fraction 0.d1 d2 ..., in units
RECURSIVE FractionValue(_, _)
FractionValue(s, place) ==
    IF s = <<>> THEN 0
    ELSE RoundDiv(DigitVal(Head(s)) * DOLLAR, place)
         + FractionValue(Tail(s), place * 10)

Drop(s, n) == SubSeq(s, n + 1, Len(s))

\* <input type="number">: its value is what was typed when that is a valid
\* floating-point number ("-"? digits ("." digits)? or "-"? "." digits), and
\* the empty string otherwise
NumberInputValue(typed) ==
    LET body == IF typed # <<>> /\ Head(typed) = "-" THEN Tail(typed) ELSE typed
        n == DigitRun(body)
        rest == Drop(body, n)
        valid == \/ n > 0 /\ rest = <<>>
                 \/ /\ rest # <<>> /\ Head(rest) = "."
                    /\ Len(rest) > 1
                    /\ DigitRun(Tail(rest)) = Len(rest) - 1
    IN  IF valid THEN typed ELSE <<>>

\* parseFloat: the longest prefix that reads as a decimal number, NaN when
\* there is none
parseFloat(s) ==
    LET neg == s # <<>> /\ Head(s) = "-"
        body == IF neg THEN Tail(s) ELSE s
        n == DigitRun(body)
        rest == Drop(body, n)
        m == IF rest # <<>> /\ Head(rest) = "." THEN DigitRun(Tail(rest)) ELSE 0
        mag == DigitsValue(SubSeq(body, 1, n), 0) * DOLLAR
               + FractionValue(SubSeq(rest, 2, m + 1), 10)
    IN  IF n = 0 /\ m = 0
        THEN [nan |-> TRUE, val |-> 0]
        ELSE [nan |-> FALSE, val |-> IF neg THEN -mag ELSE mag]

\* amounts the user types into the form
TypedAmounts ==
    { <<>>, <<"1", "a">>, <<"0">>, <<"1">>, <<"3", "0", "0", "0", "0">> }
\* dates the user picks (and the date of "today" when the page is opened)
TypedDates == {10}

----------------------------------------------------------------------------
(* State *)

VARIABLES
    store,            \* the rows of table loan_payments
    nextId,           \* the id the table gives to the next inserted row
    inflight,         \* the requests sent to the table and not yet answered to the page
    clearedPayments,  \* useState<LoanPayment[]>([])
    loading,          \* useState(true)
    saving,           \* useState(false)
    extraAmount,      \* useState(""): a sequence of characters
    extraDate,        \* useState(""): <<>> when empty, <<d>> for day d
    alertMsg,         \* what the step just taken passed to alert(), "" if nothing
    consoleMsg,       \* what the step just taken passed to console.error, "" if nothing
    calc,             \* one call of calculateSchedule: its arguments and what it returned
    extra,            \* one extra-payment computation: its inputs and the row it built
    chores,           \* the chores page: its table, its loaded completions, the clock
    finance           \* the finance page: its form, its table, its loaded rows

pageVars == <<store, nextId, inflight, clearedPayments, loading, saving,
              extraAmount, extraDate, alertMsg, consoleMsg>>
appVars == <<chores, finance>>
pureVars == <<calc, extra, appVars>>
vars == <<pageVars, pureVars>>

\* the object passed to insert()
InsertRow(date, amount, principal, interest, balance) ==
    [payment_date |-> date, amount_paid |-> amount,
     principal_portion |-> principal, interest_portion |-> interest,
     remaining_balance |-> balance, status |-> "cleared"]

NoRow == InsertRow(0, 0, 0, 0, 0)

\* a request of the page: op is the handler that sent it, phase is "sent"
\* until the table has executed it and "ok" or "error" afterwards
Request(op, row, id) ==
    [op |-> op, phase |-> "sent", row |-> row, id |-> id, data |-> <<>>]

\* inflight is a bag: two requests may be equal, and answers come in any order
Without(r) == inflight (-) SetToBag({r})
With(bag, r) == bag (+) SetToBag({r})

\* the requests in flight that are in the set S, as a bag
Among(S) == [r \in BagToSet(inflight) \cap S |-> CopiesIn(r, inflight)]

IsMutation(r) == r.op \in {"markPaymentCleared", "makeExtraPayment", "deletePayment"}
IsPendingInsert(r) ==
    r.op \in {"markPaymentCleared", "makeExtraPayment"} /\ r.phase = "sent"

\* inserts sent by the page that the table has not executed yet
PendingInserts ==
    BagCardinality(Among({r \in BagToSet(inflight) : IsPendingInsert(r)}))

\* the user may start another request, and another insert
MayRequest == BagCardinality(inflight) < MaxInFlight
MayInsert == MayRequest /\ (nextId - 1) + PendingInserts < MaxRows

----------------------------------------------------------------------------
(* The table *)

\* NUMERIC(10, 2): a value is kept to the cent
ToNumeric(x) == RoundDiv(x, CENT) * CENT

\* the row the table keeps for an insert: id from its default, the amounts
\* as NUMERIC(10, 2)
StoredRow(id, row) ==
    [id |-> id, payment_date |-> row.payment_date,
     amount_paid |-> ToNumeric(row.amount_paid),
     principal_portion |-> ToNumeric(row.principal_portion),
     interest_portion |-> ToNumeric(row.interest_portion),
     remaining_balance |-> ToNumeric(row.remaining_balance),
     status |-> row.status]

\* from("loan_payments").insert(row)
TableInsert(rows, id, row) == rows \cup {StoredRow(id, row)}

\* mutant: delete().gte("id", id) instead of eq
TableDeleteFrom(rows, id) == {r \in rows : r.id < id}

\* from("loan_payments").delete().eq("id", id)
TableDelete(rows, id) == {r \in rows : r.id # id}

\* the rows ordered with {ascending: false}
OrderedByDateDescending(S) ==
    LET n == Cardinality(S)
    IN  {s \in [1..n -> S] :
            /\ \A i, j \in 1..n : i < j => s[i] # s[j]
            /\ \A i \in 1..(n - 1) : s[i].payment_date >= s[i + 1].payment_date}

\* the orders in which select ... order("payment_date", {ascending: true})
\* may return the set S of rows (rows of one date come in any order)
RECURSIVE OrderedByDate(_)
OrderedByDate(S) ==
    IF S = {} THEN {<<>>}
    ELSE UNION {{<<m>> \o t : t \in OrderedByDate(S \ {m})} :
                   m \in {x \in S : \A y \in S : x.payment_date <= y.payment_date}}

\* the select without .eq("status", "cleared")
TableSelectAll(rows) == OrderedByDate(rows)

\* select("*").eq("status", "cleared").order("payment_date", ...)
TableSelect(rows) == OrderedByDate({r \in rows : r.status = "cleared"})

----------------------------------------------------------------------------
(* What the page derives from clearedPayments on every render *)

Last(s) == s[Len(s)]

remainingBalance ==
    IF Len(clearedPayments) > 0
    THEN Last(clearedPayments).remaining_balance
    ELSE PRINCIPAL

\* clearedPayments.reduce((sum, p) => sum + p.interest_portion, 0)
RECURSIVE SumInterestPortion(_)
SumInterestPortion(rows) ==
    IF rows = <<>> THEN 0
    ELSE SumInterestPortion(SubSeq(rows, 1, Len(rows) - 1)) + Last(rows).interest_portion

totalInterestPaid == SumInterestPortion(clearedPayments)

\* clearedPayments.reduce((sum, p) => sum + p.principal_portion, 0)
RECURSIVE SumPrincipalPortion(_)
SumPrincipalPortion(rows) ==
    IF rows = <<>> THEN 0
    ELSE SumPrincipalPortion(SubSeq(rows, 1, Len(rows) - 1)) + Last(rows).principal_portion

totalPrincipalPaid == SumPrincipalPortion(clearedPayments)

\* an empty ledger counted from START_DATE itself
lastPaymentDateFromStart ==
    IF Len(clearedPayments) > 0
    THEN Last(clearedPayments).payment_date
    ELSE START_DATE

lastPaymentDate ==
    IF Len(clearedPayments) > 0
    THEN Last(clearedPayments).payment_date
    ELSE START_DATE - PERIOD_DAYS

nextPaymentDate == lastPaymentDate + PERIOD_DAYS

upcomingSchedule ==
    calculateSchedule(remainingBalance, nextPaymentDate, UPCOMING_COUNT)

\* mutant: the principal and the new balance computed without Math.min and
\* Math.max
ExtraPaymentRowUnclamped(amount, date, balance, lastDate) ==
    LET daysSinceLastPayment == date - lastDate
        interest == MulDiv(balance * ANNUAL_RATE_PCT, daysSinceLastPayment,
                           100 * DAYS_PER_YEAR)
        principal == amount - interest
        newBalance == balance - principal
    IN  InsertRow(date, amount, principal, interest, newBalance)

\* the extra payment charged a bi-weekly period's interest whatever the days
ExtraPaymentRowPeriodRate(amount, date, balance, lastDate) ==
    LET interest == BiweeklyInterest(balance)
        principal == Min(amount - interest, balance)
        newBalance == Max(0, balance - principal)
    IN  InsertRow(date, amount, principal, interest, newBalance)

\* the extra payment charged the bi-weekly rate in proportion to the days
ExtraPaymentRowByPeriods(amount, date, balance, lastDate) ==
    LET daysSinceLastPayment == date - lastDate
        interest == MulDiv(BiweeklyInterest(balance), daysSinceLastPayment, PERIOD_DAYS)
        principal == Min(amount - interest, balance)
        newBalance == Max(0, balance - principal)
    IN  InsertRow(date, amount, principal, interest, newBalance)

\* the row makeExtraPayment computes for an accepted amount and date
ExtraPaymentRow(amount, date, balance, lastDate) ==
    LET daysSinceLastPayment == date - lastDate
        interest == MulDiv(balance * ANNUAL_RATE_PCT, daysSinceLastPayment,
                           100 * DAYS_PER_YEAR)
        principal == Min(amount - interest, balance)
        newBalance == Max(0, balance - principal)
    IN  InsertRow(date, amount, principal, interest, newBalance)

----------------------------------------------------------------------------
(* Initial state: the page has mounted, its effect has called              *)
(* loadPayments() and set the date field to today; the table is empty      *)

LoadRequest == Request("loadPayments", NoRow, 0)

PageInit ==
    /\ store = {}
    /\ nextId = 1
    /\ inflight = SetToBag({LoadRequest})
    /\ clearedPayments = <<>>
    /\ loading = TRUE
    /\ saving = FALSE
    /\ extraAmount = <<>>
    /\ extraDate \in {<<d>> : d \in TypedDates}
    /\ alertMsg = ""
    /\ consoleMsg = ""

\* no call of calculateSchedule is looked at on its own
NoCall == [startBalance |-> 0, startDate |-> START_DATE, count |-> 0,
           schedule |-> <<>>, balance |-> 0, currentDate |-> START_DATE, i |-> 0,
           returned |-> FALSE]

\* no extra-payment computation is looked at on its own
NoExtra == [amount |-> 0, date |-> START_DATE, balance |-> 0, lastDate |-> START_DATE,
            returned |-> FALSE, row |-> NoRow]

\* the chores page before its first load: nothing stored, nothing loaded
ChoresStart ==
    [store |-> {}, nextId |-> 1, changes |-> 0, completions |-> <<>>, now |-> 0,
     error |-> ""]

\* no upsert has been sent yet
NoSnapshot ==
    [week_of |-> <<>>, checking_cents |-> 0, savings_cents |-> 0,
     credit_card_cents |-> 0]

\* the finance page before its first load: weekOf is today, the balance
\* fields are empty, nothing is stored; submits counts the submissions of
\* the form, upserts the upserts issued, sent is the row of the last one
FinanceStart ==
    [weekOf |-> <<START_DATE>>, checking |-> <<>>, savings |-> <<>>,
     creditCard |-> <<>>, snapshots |-> {}, rows |-> <<>>, error |-> "",
     submits |-> 0, upserts |-> 0, sent |-> NoSnapshot]

AppInit == chores = ChoresStart /\ finance = FinanceStart

Init == PageInit /\ calc = NoCall /\ extra = NoExtra /\ AppInit

\* loadPayments(), up to its await: called with the requests that stay in flight
loadPayments(others) ==
    /\ loading' = TRUE
    /\ inflight' = With(others, LoadRequest)

----------------------------------------------------------------------------
(* The user's actions *)

\* onChange of the amount field
setExtraAmount(typed) ==
    /\ extraAmount' = NumberInputValue(typed)
    /\ alertMsg' = "" /\ consoleMsg' = ""
    /\ UNCHANGED <<pureVars, store, nextId, inflight, clearedPayments, loading, saving, extraDate>>

\* onChange of the date field
setExtraDate(value) ==
    /\ extraDate' = value
    /\ alertMsg' = "" /\ consoleMsg' = ""
    /\ UNCHANGED <<pureVars, store, nextId, inflight, clearedPayments, loading, saving, extraAmount>>

\* the insert with the interest and principal of the entry exchanged
markPaymentClearedSwapped(idx) ==
    /\ MayInsert
    /\ idx \in 1..Len(upcomingSchedule)
    /\ LET scheduledPayment == upcomingSchedule[idx]
       IN  inflight' = With(inflight,
               Request("markPaymentCleared",
                       InsertRow(scheduledPayment.date, scheduledPayment.amount,
                                 scheduledPayment.interest, scheduledPayment.principal,
                                 scheduledPayment.balance),
                       0))
    /\ alertMsg' = "" /\ consoleMsg' = ""
    /\ UNCHANGED <<pureVars, store, nextId, clearedPayments, loading, saving, extraAmount, extraDate>>

\* markPaymentCleared(payment), up to its await: the user checks the box of
\* entry idx of the upcoming payments
markPaymentCleared(idx) ==
    /\ MayInsert
    /\ idx \in 1..Len(upcomingSchedule)
    /\ LET scheduledPayment == upcomingSchedule[idx]
       IN  inflight' = With(inflight,
               Request("markPaymentCleared",
                       InsertRow(scheduledPayment.date, scheduledPayment.amount,
                                 scheduledPayment.principal, scheduledPayment.interest,
                                 scheduledPayment.balance),
                       0))
    /\ alertMsg' = "" /\ consoleMsg' = ""
    /\ UNCHANGED <<pureVars, store, nextId, clearedPayments, loading, saving, extraAmount, extraDate>>

\* makeExtraPayment: the submit button is disabled while saving
makeExtraPaymentMissing ==
    /\ ~saving
    /\ extraAmount = <<>> \/ extraDate = <<>>
    /\ alertMsg' = "Please enter both amount and date" /\ consoleMsg' = ""
    /\ UNCHANGED <<pureVars, store, nextId, inflight, clearedPayments, loading, saving,
                   extraAmount, extraDate>>

makeExtraPaymentInvalid ==
    /\ ~saving
    /\ extraAmount # <<>> /\ extraDate # <<>>
    /\ LET amount == parseFloat(extraAmount)
       IN  amount.nan \/ amount.val <= 0
    /\ alertMsg' = "Please enter a valid amount" /\ consoleMsg' = ""
    /\ UNCHANGED <<pureVars, store, nextId, inflight, clearedPayments, loading, saving,
                   extraAmount, extraDate>>

\* mutant: makeExtraPayment without the check of the parsed amount
makeExtraPaymentSendUnchecked ==
    /\ ~saving
    /\ MayInsert
    /\ extraAmount # <<>> /\ extraDate # <<>>
    /\ LET amount == parseFloat(extraAmount)
       IN  inflight' = With(inflight,
               Request("makeExtraPayment",
                       ExtraPaymentRow(amount.val, extraDate[1],
                                       remainingBalance, lastPaymentDate),
                       0))
    /\ saving' = TRUE
    /\ alertMsg' = "" /\ consoleMsg' = ""
    /\ UNCHANGED <<pureVars, store, nextId, clearedPayments, loading, extraAmount, extraDate>>

\* makeExtraPayment with an accepted form, up to its await
makeExtraPaymentSend ==
    /\ ~saving
    /\ MayInsert
    /\ extraAmount # <<>> /\ extraDate # <<>>
    /\ LET amount == parseFloat(extraAmount)
       IN  /\ ~amount.nan /\ amount.val > 0
           /\ inflight' = With(inflight,
                  Request("makeExtraPayment",
                          ExtraPaymentRow(amount.val, extraDate[1],
                                          remainingBalance, lastPaymentDate),
                          0))
    /\ saving' = TRUE
    /\ alertMsg' = "" /\ consoleMsg' = ""
    /\ UNCHANGED <<pureVars, store, nextId, clearedPayments, loading, extraAmount, extraDate>>

makeExtraPayment ==
    \/ makeExtraPaymentMissing
    \/ makeExtraPaymentInvalid
    \/ makeExtraPaymentSend

\* deletePayment(id) when the user answers confirm() with Cancel
deletePaymentDeclined(i) ==
    /\ i \in 1..Len(clearedPayments)
    /\ alertMsg' = "" /\ consoleMsg' = ""
    /\ UNCHANGED <<pureVars, store, nextId, inflight, clearedPayments, loading, saving,
                   extraAmount, extraDate>>

\* deletePayment(id), up to its await: the Delete button of row i of the history
deletePaymentSend(i) ==
    /\ MayRequest
    /\ i \in 1..Len(clearedPayments)
    /\ inflight' = With(inflight, Request("deletePayment", NoRow, clearedPayments[i].id))
    /\ alertMsg' = "" /\ consoleMsg' = ""
    /\ UNCHANGED <<pureVars, store, nextId, clearedPayments, loading, saving, extraAmount, extraDate>>

----------------------------------------------------------------------------
(* The table executes a request, or the request fails *)

TableExecutes(r) ==
    /\ r.phase = "sent"
    /\ LET Answer(data) == With(Without(r), [r EXCEPT !.phase = "ok", !.data = data])
       IN  CASE r.op \in {"markPaymentCleared", "makeExtraPayment"} ->
                  /\ store' = TableInsert(store, nextId, r.row)
                  /\ nextId' = nextId + 1
                  /\ inflight' = Answer(<<>>)
             [] r.op = "deletePayment" ->
                  /\ store' = TableDelete(store, r.id)
                  /\ nextId' = nextId
                  /\ inflight' = Answer(<<>>)
             [] r.op = "loadPayments" ->
                  /\ \E data \in TableSelect(store) : inflight' = Answer(data)
                  /\ UNCHANGED <<pureVars, store, nextId>>
    /\ alertMsg' = "" /\ consoleMsg' = ""
    /\ UNCHANGED <<pureVars, clearedPayments, loading, saving, extraAmount, extraDate>>

\* the request comes back with { data: null, error } and the table untouched
TableFails(r) ==
    /\ r.phase = "sent"
    /\ inflight' = With(Without(r), [r EXCEPT !.phase = "error"])
    /\ alertMsg' = "" /\ consoleMsg' = ""
    /\ UNCHANGED <<pureVars, store, nextId, clearedPayments, loading, saving, extraAmount,
                   extraDate>>

----------------------------------------------------------------------------
(* The page resumes after an await *)

Answered(r, op) ==
    /\ r.op = op
    /\ r.phase # "sent"

markPaymentClearedError(r) ==
    /\ Answered(r, "markPaymentCleared")
    /\ r.phase = "error"
    /\ consoleMsg' = "Error marking payment:"
    /\ alertMsg' = "Error marking payment as cleared"
    /\ inflight' = Without(r)
    /\ UNCHANGED <<pureVars, store, nextId, clearedPayments, loading, saving, extraAmount, extraDate>>

markPaymentClearedDone(r) ==
    /\ Answered(r, "markPaymentCleared")
    /\ r.phase = "ok"
    /\ loadPayments(Without(r))
    /\ alertMsg' = "" /\ consoleMsg' = ""
    /\ UNCHANGED <<pureVars, store, nextId, clearedPayments, saving, extraAmount, extraDate>>

makeExtraPaymentError(r) ==
    /\ Answered(r, "makeExtraPayment")
    /\ r.phase = "error"
    /\ consoleMsg' = "Error adding extra payment:"
    /\ alertMsg' = "Error adding extra payment"
    /\ saving' = FALSE
    /\ inflight' = Without(r)
    /\ UNCHANGED <<pureVars, store, nextId, clearedPayments, loading, extraAmount, extraDate>>

makeExtraPaymentDone(r) ==
    /\ Answered(r, "makeExtraPayment")
    /\ r.phase = "ok"
    /\ extraAmount' = <<>>
    /\ extraDate' = <<>>
    /\ saving' = FALSE
    /\ loadPayments(Without(r))
    /\ alertMsg' = "" /\ consoleMsg' = ""
    /\ UNCHANGED <<pureVars, store, nextId, clearedPayments>>

\* the result of the delete is not looked at
deletePaymentDone(r) ==
    /\ Answered(r, "deletePayment")
    /\ loadPayments(Without(r))
    /\ alertMsg' = "" /\ consoleMsg' = ""
    /\ UNCHANGED <<pureVars, store, nextId, clearedPayments, saving, extraAmount, extraDate>>

\* loadPayments() after its await
loadPaymentsDone(r) ==
    /\ Answered(r, "loadPayments")
    /\ consoleMsg' = IF r.phase = "error" THEN "Error loading payments:" ELSE ""
    /\ clearedPayments' = IF r.phase = "error" THEN <<>> ELSE r.data
    /\ loading' = FALSE
    /\ inflight' = Without(r)
    /\ alertMsg' = ""
    /\ UNCHANGED <<pureVars, store, nextId, saving, extraAmount, extraDate>>

----------------------------------------------------------------------------

Next ==
    \/ \E typed \in TypedAmounts : setExtraAmount(typed)
    \/ \E value \in {<<>>} \cup {<<d>> : d \in TypedDates} : setExtraDate(value)
    \/ \E idx \in 1..MaxCheckIdx : markPaymentCleared(idx)
    \/ makeExtraPayment
    \/ \E i \in 1..MaxRows : deletePaymentDeclined(i)
    \/ \E i \in 1..MaxRows : deletePaymentSend(i)
    \/ \E r \in BagToSet(inflight) : TableExecutes(r)
    \/ \E r \in BagToSet(inflight) : TableFails(r)
    \/ \E r \in BagToSet(inflight) : markPaymentClearedError(r)
    \/ \E r \in BagToSet(inflight) : markPaymentClearedDone(r)
    \/ \E r \in BagToSet(inflight) : makeExtraPaymentError(r)
    \/ \E r \in BagToSet(inflight) : makeExtraPaymentDone(r)
    \/ \E r \in BagToSet(inflight) : deletePaymentDone(r)
    \/ \E r \in BagToSet(inflight) : loadPaymentsDone(r)

Spec == Init /\ [][Next]_vars

----------------------------------------------------------------------------
(* The page over a table that another writer has used: the table admits    *)
(* status 'pending', its default, which the page itself never writes       *)

\* the first scheduled payment, recorded by an insert that left status to
\* its default
PendingRow ==
    [id |-> 0, payment_date |-> START_DATE, amount_paid |-> PAYMENT_AMOUNT,
     principal_portion |-> 23269 * CENT, interest_portion |-> 4231 * CENT,
     remaining_balance |-> 2176731 * CENT, status |-> "pending"]

PendingInit ==
    /\ store = {PendingRow}
    /\ nextId = 1
    /\ inflight = SetToBag({LoadRequest})
    /\ clearedPayments = <<>>
    /\ loading = TRUE
    /\ saving = FALSE
    /\ extraAmount = <<>>
    /\ extraDate \in {<<d>> : d \in TypedDates}
    /\ alertMsg = ""
    /\ consoleMsg = ""
    /\ calc = NoCall
    /\ extra = NoExtra
    /\ AppInit

PendingSpec == PendingInit /\ [][Next]_vars

----------------------------------------------------------------------------
(* calculateSchedule on its own: one call with arguments from bounded sets *)

\* counts 0..MaxCount are tried besides the page's UPCOMING_COUNT and FULL_COUNT
MaxCount == 3

\* start balances: none, a cent, less than a payment, about a payment, a few
\* payments, the loan's principal and its balance after one payment, and
\* balances whose bi-weekly interest reaches the payment
StartBalances ==
    { -DOLLAR, 0, CENT, 100 * DOLLAR, 274 * DOLLAR + 47 * CENT, 275 * DOLLAR,
      276 * DOLLAR, 500 * DOLLAR, 1000 * DOLLAR, 21767 * DOLLAR + 31 * CENT,
      PRINCIPAL, 143000 * DOLLAR, 150000 * DOLLAR }
StartDates == {START_DATE, START_DATE + 10}
Counts == 0..MaxCount \cup {UPCOMING_COUNT, FULL_COUNT}

\* the call has run lines 49-51: schedule = [], balance = startBalance,
\* currentDate = new Date(startDate), and i = 0
CalcInit ==
    /\ PageInit
    /\ extra = NoExtra
    /\ AppInit
    /\ \E b \in StartBalances, d \in StartDates, c \in Counts :
          calc = [startBalance |-> b, startDate |-> d, count |-> c,
                  schedule |-> <<>>, balance |-> b, currentDate |-> d, i |-> 0,
                  returned |-> FALSE]

\* a pass of the loop that advances the date before it pushes the entry
calculateScheduleStepDateFirst ==
    /\ ~calc.returned
    /\ calc.i < calc.count
    /\ calc.balance > 0
    /\ LET e == ScheduleEntry(calc.balance, calc.currentDate + PERIOD_DAYS)
       IN  calc' = [calc EXCEPT
                       !.schedule = Append(calc.schedule, e),
                       !.balance = e.balance,
                       !.currentDate = calc.currentDate + PERIOD_DAYS,
                       !.i = calc.i + 1]
    /\ UNCHANGED <<pageVars, extra, appVars>>

\* a pass of the loop without the break of line 54
calculateScheduleStepNoBreak ==
    /\ ~calc.returned
    /\ calc.i < calc.count
    /\ LET e == ScheduleEntry(calc.balance, calc.currentDate)
       IN  calc' = [calc EXCEPT
                       !.schedule = Append(calc.schedule, e),
                       !.balance = e.balance,
                       !.currentDate = calc.currentDate + PERIOD_DAYS,
                       !.i = calc.i + 1]
    /\ UNCHANGED <<pageVars, extra, appVars>>

\* one pass of the for loop: the entry is pushed, then the date advances
calculateScheduleStep ==
    /\ ~calc.returned
    /\ calc.i < calc.count
    /\ calc.balance > 0
    /\ LET e == ScheduleEntry(calc.balance, calc.currentDate)
       IN  calc' = [calc EXCEPT
                       !.schedule = Append(calc.schedule, e),
                       !.balance = e.balance,
                       !.currentDate = calc.currentDate + PERIOD_DAYS,
                       !.i = calc.i + 1]
    /\ UNCHANGED <<pageVars, extra, appVars>>

\* the schedule is returned from any pass of the loop
calculateScheduleReturnsEarly ==
    /\ ~calc.returned
    /\ calc' = [calc EXCEPT !.returned = TRUE]
    /\ UNCHANGED <<pageVars, extra, appVars>>

\* the loop ends, by its bound or by the break, and the schedule is returned
calculateScheduleReturns ==
    /\ ~calc.returned
    /\ calc.i >= calc.count \/ calc.balance <= 0
    /\ calc' = [calc EXCEPT !.returned = TRUE]
    /\ UNCHANGED <<pageVars, extra, appVars>>

CalcNext == calculateScheduleStep \/ calculateScheduleReturns

CalcSpec == CalcInit /\ [][CalcNext]_vars

----------------------------------------------------------------------------
(* The extra-payment computation on its own: the lines of makeExtraPayment *)
(* between its validation and its insert, with inputs from bounded sets    *)

\* amounts: a dollar, the 500 of the worked example, more than any balance here
ExtraAmounts == { DOLLAR, 500 * DOLLAR, 30000 * DOLLAR }
\* balances the page can hold: PRINCIPAL or a stored remaining_balance (whole cents)
ExtraBalances == { 0, 100 * DOLLAR, 21767 * DOLLAR + 31 * CENT, PRINCIPAL }
\* payment_date of the last row, or START_DATE - 14 days for an empty ledger
ExtraLastDates == { START_DATE - PERIOD_DAYS, START_DATE, START_DATE + PERIOD_DAYS }
\* the date typed: before, on, 10 and 14 days after the middle last date
ExtraDates == { START_DATE - 4, START_DATE, START_DATE + 10, START_DATE + PERIOD_DAYS }

ExtraInit ==
    /\ PageInit
    /\ calc = NoCall
    /\ AppInit
    /\ \E a \in ExtraAmounts, d \in ExtraDates, b \in ExtraBalances, l \in ExtraLastDates :
          extra = [amount |-> a, date |-> d, balance |-> b, lastDate |-> l,
                   returned |-> FALSE, row |-> NoRow]

extraPaymentComputed ==
    /\ ~extra.returned
    /\ extra' = [extra EXCEPT
                    !.returned = TRUE,
                    !.row = ExtraPaymentRow(extra.amount, extra.date, extra.balance,
                                            extra.lastDate)]
    /\ UNCHANGED <<pageVars, calc, appVars>>

ExtraNext == extraPaymentComputed

ExtraSpec == ExtraInit /\ [][ExtraNext]_vars

----------------------------------------------------------------------------
(* The two computations side by side: a call of calculateSchedule or an    *)
(* extra-payment computation, for what they have in common                  *)

PureInit == CalcInit \/ ExtraInit

PureNext == CalcNext \/ ExtraNext

PureSpec == PureInit /\ [][PureNext]_vars

----------------------------------------------------------------------------
(* The chores page (src/app/chores/page.tsx): table chore_completions, the *)
(* loaded completions, and what the page derives from them.  Time is       *)
(* counted in half days from the moment the page is opened.                *)

\* the clock runs to MaxNow half days; MaxChanges inserts and deletes are
\* followed; the first MaxShown rows of the history have their Delete clicked
MaxNow == 3
MaxChanges == 2
MaxShown == 2

\* 1000 * 60 * 60 * 24 ms, in half days
DAY == 2
\* the 7 of 7 * 24 * 60 * 60 * 1000
RECENT_DAYS == 7
\* slice(0, 5)
TOP_COUNT == 5

AREAS == <<"Kitchen", "Dining", "Living", "Bathrooms", "Bedrooms">>
TASKS == <<"Mop", "Vacuum", "Counters", "Baseboards", "Cabinets">>

\* what the user selects in the form: "" is the placeholder option
SelectableAreas == {"", "Kitchen", "Bedrooms"}
SelectableTasks == {"", "Mop", "Cabinets"}

\* the rows ordered with {ascending: true}
RECURSIVE CompletionsAscending(_)
CompletionsAscending(S) ==
    IF S = {} THEN {<<>>}
    ELSE UNION {{<<m>> \o t : t \in CompletionsAscending(S \ {m})} :
                   m \in {x \in S : \A y \in S : x.completed_at <= y.completed_at}}

\* the orders in which select("*").order("completed_at", {ascending: false})
\* may return the set S of rows (rows of one time come in any order)
RECURSIVE CompletionsDescending(_)
CompletionsDescending(S) ==
    IF S = {} THEN {<<>>}
    ELSE UNION {{<<m>> \o t : t \in CompletionsDescending(S \ {m})} :
                   m \in {x \in S : \A y \in S : x.completed_at >= y.completed_at}}

\* load(): the completions it sets for the table rows, and its error
choresLoad(rows, fails, before) ==
    IF fails
    THEN {[completions |-> <<>>, error |-> "load failed"]}
    ELSE {[completions |-> c, error |-> before] : c \in CompletionsDescending(rows)}

\* completions.find(c => c.area === area && c.task === task)?.completed_at
getLastCleaned(area, task) ==
    LET found == {i \in 1..Len(chores.completions) :
                     /\ chores.completions[i].area = area
                     /\ chores.completions[i].task = task}
    IN  IF found = {}
        THEN [defined |-> FALSE, at |-> 0]
        ELSE LET first == CHOOSE i \in found : \A j \in found : i <= j
             IN  [defined |-> TRUE, at |-> chores.completions[first].completed_at]

\* AREAS.flatMap(area => TASKS.map(task => ({area, task})))
allCombinations ==
    [k \in 1..(Len(AREAS) * Len(TASKS)) |->
        [area |-> AREAS[((k - 1) \div Len(TASKS)) + 1],
         task |-> TASKS[((k - 1) % Len(TASKS)) + 1]]]

\* the combination with lastCleaned and daysAgo; inf stands for Infinity
WithLastCleaned(combo) ==
    LET lastCleaned == getLastCleaned(combo.area, combo.task)
    IN  [area |-> combo.area, task |-> combo.task, lastCleaned |-> lastCleaned,
         daysAgo |-> IF lastCleaned.defined
                     THEN [inf |-> FALSE, n |-> (chores.now - lastCleaned.at) \div DAY]
                     ELSE [inf |-> TRUE, n |-> 0]]

withLastCleaned == [k \in DOMAIN allCombinations |-> WithLastCleaned(allCombinations[k])]

\* the comparator with its operands exchanged: a.daysAgo - b.daysAgo
CompareAscending(a, b) ==
    CASE a.daysAgo.inf /\ b.daysAgo.inf -> 0
      [] a.daysAgo.inf -> 1
      [] b.daysAgo.inf -> -1
      [] OTHER -> IF a.daysAgo.n > b.daysAgo.n THEN 1
                  ELSE IF a.daysAgo.n < b.daysAgo.n THEN -1 ELSE 0

\* the sign of (a, b) => b.daysAgo - a.daysAgo; Infinity - Infinity is NaN,
\* which sort() takes as 0
Compare(a, b) ==
    CASE a.daysAgo.inf /\ b.daysAgo.inf -> 0
      [] b.daysAgo.inf -> 1
      [] a.daysAgo.inf -> -1
      [] OTHER -> IF b.daysAgo.n > a.daysAgo.n THEN 1
                  ELSE IF b.daysAgo.n < a.daysAgo.n THEN -1 ELSE 0

\* x put into the sorted s behind every element that does not come after it
RECURSIVE InsertSorted(_, _)
InsertSorted(s, x) ==
    IF s = <<>> THEN <<x>>
    ELSE IF Compare(s[Len(s)], x) <= 0 THEN Append(s, x)
    ELSE Append(InsertSorted(SubSeq(s, 1, Len(s) - 1), x), s[Len(s)])

\* Array.prototype.sort, which is stable
RECURSIVE SortByDaysAgo(_)
SortByDaysAgo(s) ==
    IF s = <<>> THEN <<>>
    ELSE InsertSorted(SortByDaysAgo(SubSeq(s, 1, Len(s) - 1)), s[Len(s)])

getTopPriorities == SubSeq(SortByDaysAgo(withLastCleaned), 1, TOP_COUNT)

\* the colour of the status cell of (area, task)
StatusColour(area, task) ==
    LET lastCleaned == getLastCleaned(area, task)
        isRecent == /\ lastCleaned.defined
                    /\ chores.now - lastCleaned.at < RECENT_DAYS * DAY
    IN  IF isRecent THEN "green"
        ELSE IF lastCleaned.defined THEN "yellow"
        ELSE "red"

\* markComplete with nothing selected for the area or the task
markCompleteMissing(area, task) ==
    /\ area = "" \/ task = ""
    /\ chores' = [chores EXCEPT !.error = "Please select both area and task"]
    /\ UNCHANGED <<pageVars, calc, extra, finance>>

\* markComplete: the insert, which may fail, and the load() after it
markComplete(area, task, insertFails, loadFails) ==
    /\ area # "" /\ task # ""
    /\ chores.changes < MaxChanges
    /\ LET row == [id |-> chores.nextId, area |-> area, task |-> task,
                   completed_at |-> chores.now]
           rows == IF insertFails THEN chores.store ELSE chores.store \cup {row}
       IN  \E l \in choresLoad(rows, loadFails,
                               IF insertFails THEN "insert failed" ELSE "") :
               chores' = [chores EXCEPT
                             !.store = rows,
                             !.nextId = IF insertFails THEN @ ELSE @ + 1,
                             !.changes = @ + 1,
                             !.completions = l.completions,
                             !.error = l.error]
    /\ UNCHANGED <<pageVars, calc, extra, finance>>

\* deleteCompletion(id) for the i-th row shown, confirmed: the delete, whose
\* result is not looked at, and the load() after it
deleteCompletion(i, deleteFails, loadFails) ==
    /\ i \in 1..Len(chores.completions)
    /\ chores.changes < MaxChanges
    /\ LET rows == IF deleteFails THEN chores.store
                   ELSE {r \in chores.store : r.id # chores.completions[i].id}
       IN  \E l \in choresLoad(rows, loadFails, chores.error) :
               chores' = [chores EXCEPT
                             !.store = rows,
                             !.changes = @ + 1,
                             !.completions = l.completions,
                             !.error = l.error]
    /\ UNCHANGED <<pageVars, calc, extra, finance>>

\* the page is opened or refreshed: the load() of its effect
choresReload(loadFails) ==
    /\ \E l \in choresLoad(chores.store, loadFails, chores.error) :
          chores' = [chores EXCEPT !.completions = l.completions, !.error = l.error]
    /\ UNCHANGED <<pageVars, calc, extra, finance>>

\* half a day passes and the page is rendered again
choresTick ==
    /\ chores.now < MaxNow
    /\ chores' = [chores EXCEPT !.now = @ + 1]
    /\ UNCHANGED <<pageVars, calc, extra, finance>>

ChoresNext ==
    \/ \E area \in SelectableAreas, task \in SelectableTasks :
          markCompleteMissing(area, task)
    \/ \E area \in SelectableAreas, task \in SelectableTasks,
          insertFails \in BOOLEAN, loadFails \in BOOLEAN :
          markComplete(area, task, insertFails, loadFails)
    \/ \E i \in 1..MaxShown, deleteFails \in BOOLEAN, loadFails \in BOOLEAN :
          deleteCompletion(i, deleteFails, loadFails)
    \/ \E loadFails \in BOOLEAN : choresReload(loadFails)
    \/ choresTick

\* what the table holds when the page is opened: combination k of
\* allCombinations, for k from `from` to 25, was completed 10 + k half days
\* before (5 to 17 days), each once
History(from) ==
    {[id |-> -k, area |-> allCombinations[k].area, task |-> allCombinations[k].task,
      completed_at |-> -(10 + k)] : k \in from..(Len(AREAS) * Len(TASKS))}

\* no combination done yet, all but the first three done, all done
Histories == {{}, History(4), History(1)}

ChoresInit ==
    /\ PageInit
    /\ calc = NoCall
    /\ extra = NoExtra
    /\ finance = FinanceStart
    /\ \E h \in Histories : chores = [ChoresStart EXCEPT !.store = h]

ChoresSpec == ChoresInit /\ [][ChoresNext]_vars

----------------------------------------------------------------------------
(* The finance page *)

MaxUpserts == 1

\* what the user types into the balance fields (plain text inputs)
CheckingTyped ==
    { <<>>, <<"a">>, <<"1", "2", ".", "3", "4">>, <<"-", "5">>,
      <<"1", ",", "0", "0", "0">>, <<" ", "7">> }
SavingsTyped == { <<>>, <<"2", ".", "5">> }
CreditCardTyped == { <<>>, <<"$", "5">> }
\* the weeks the user picks
TypedWeeks == { <<>>, <<START_DATE + 7>> }

\* s without its leading and trailing blanks
RECURSIVE TrimLeft(_)
TrimLeft(s) == IF s # <<>> /\ Head(s) = " " THEN TrimLeft(Tail(s)) ELSE s
RECURSIVE TrimRight(_)
TrimRight(s) ==
    IF s # <<>> /\ s[Len(s)] = " " THEN TrimRight(SubSeq(s, 1, Len(s) - 1)) ELSE s

\* Number(v): 0 for a blank string, the value of the whole string when all of
\* it reads as a decimal number (sign? digits ("." digits?)? or sign? "."
\* digits), NaN otherwise; the value is in units
Number(v) ==
    LET t == TrimRight(TrimLeft(v))
        signed == t # <<>> /\ Head(t) \in {"-", "+"}
        body == IF signed THEN Tail(t) ELSE t
        n == DigitRun(body)
        rest == Drop(body, n)
        m == IF rest # <<>> /\ Head(rest) = "." THEN DigitRun(Tail(rest)) ELSE 0
        whole == rest = <<>> \/ (Head(rest) = "." /\ m = Len(rest) - 1)
        mag == DigitsValue(SubSeq(body, 1, n), 0) * DOLLAR
               + FractionValue(SubSeq(rest, 2, m + 1), 10)
    IN  IF t = <<>> THEN [nan |-> FALSE, val |-> 0]
        ELSE IF (n = 0 /\ m = 0) \/ ~whole THEN [nan |-> TRUE, val |-> 0]
        ELSE [nan |-> FALSE, val |-> IF signed /\ Head(t) = "-" THEN -mag ELSE mag]

\* Math.round of x / d: the nearest integer, halves upwards (d > 0)
MathRound(x, d) ==
    LET q == (2 * Abs(x) + d) \div (2 * d)
        exactHalf == (2 * Abs(x) + d) % (2 * d) = 0
    IN  IF x >= 0 THEN q ELSE IF exactHalf THEN -(q - 1) ELSE -q

dollarsToCents(v) ==
    LET n == Number(v)
    IN  IF n.nan THEN 0 ELSE MathRound(n.val, CENT)

\* upsert: the row replaces the one of its week, or is added
SnapshotsUpsert(table, row) ==
    {r \in table : r.week_of # row.week_of} \cup {row}

\* select * order by week_of ascending (one row a week)
RECURSIVE SnapshotsByWeek(_)
SnapshotsByWeek(table) ==
    IF table = {} THEN <<>>
    ELSE LET first == CHOOSE r \in table :
                          \A q \in table : Len(r.week_of) < Len(q.week_of)
                                             \/ (Len(r.week_of) = Len(q.week_of)
                                                  /\ (r.week_of = <<>>
                                                       \/ r.week_of[1] <= q.week_of[1]))
         IN  <<first>> \o SnapshotsByWeek(table \ {first})

\* load(): the rows of the table, or none and the message when it fails
financeLoad(table, fails, before) ==
    IF fails THEN [rows |-> <<>>, error |-> "load failed"]
    ELSE [rows |-> SnapshotsByWeek(table), error |-> before]

\* onChange of the form's fields
setWeekOf(value) ==
    /\ finance' = [finance EXCEPT !.weekOf = value]
    /\ UNCHANGED <<pageVars, calc, extra, chores>>

setChecking(typed) ==
    /\ finance' = [finance EXCEPT !.checking = typed]
    /\ UNCHANGED <<pageVars, calc, extra, chores>>

setSavings(typed) ==
    /\ finance' = [finance EXCEPT !.savings = typed]
    /\ UNCHANGED <<pageVars, calc, extra, chores>>

setCreditCard(typed) ==
    /\ finance' = [finance EXCEPT !.creditCard = typed]
    /\ UNCHANGED <<pageVars, calc, extra, chores>>

\* upsertSnapshot that turns away a form with a field that is not a number
upsertSnapshotValidated(upsertFails, loadFails) ==
    /\ finance.upserts < MaxUpserts
    /\ LET bad == \/ Number(finance.checking).nan
                  \/ Number(finance.savings).nan
                  \/ Number(finance.creditCard).nan
           row == [week_of |-> finance.weekOf,
                   checking_cents |-> dollarsToCents(finance.checking),
                   savings_cents |-> dollarsToCents(finance.savings),
                   credit_card_cents |-> dollarsToCents(finance.creditCard)]
           table == IF upsertFails THEN finance.snapshots
                    ELSE SnapshotsUpsert(finance.snapshots, row)
           loaded == financeLoad(table, loadFails,
                                 IF upsertFails THEN "upsert failed" ELSE "")
       IN  finance' =
             IF bad
             THEN [finance EXCEPT !.error = "Please enter numbers",
                                  !.submits = @ + 1]
             ELSE [finance EXCEPT !.snapshots = table, !.rows = loaded.rows,
                                  !.error = loaded.error,
                                  !.checking = <<>>, !.savings = <<>>,
                                  !.creditCard = <<>>,
                                  !.submits = @ + 1, !.upserts = @ + 1,
                                  !.sent = row]
    /\ UNCHANGED <<pageVars, calc, extra, chores>>

\* upsertSnapshot: the form is submitted; the upsert is sent, the fields are
\* emptied, the rows are loaded again
upsertSnapshot(upsertFails, loadFails) ==
    /\ finance.upserts < MaxUpserts
    /\ LET row == [week_of |-> finance.weekOf,
                   checking_cents |-> dollarsToCents(finance.checking),
                   savings_cents |-> dollarsToCents(finance.savings),
                   credit_card_cents |-> dollarsToCents(finance.creditCard)]
           table == IF upsertFails THEN finance.snapshots
                    ELSE SnapshotsUpsert(finance.snapshots, row)
           loaded == financeLoad(table, loadFails,
                                 IF upsertFails THEN "upsert failed" ELSE "")
       IN  finance' = [finance EXCEPT !.snapshots = table, !.rows = loaded.rows,
                                      !.error = loaded.error,
                                      !.checking = <<>>, !.savings = <<>>,
                                      !.creditCard = <<>>,
                                      !.submits = @ + 1, !.upserts = @ + 1,
                                      !.sent = row]
    /\ UNCHANGED <<pageVars, calc, extra, chores>>

\* the page is opened: load()
financeReload(loadFails) ==
    /\ LET loaded == financeLoad(finance.snapshots, loadFails, finance.error)
       IN  finance' = [finance EXCEPT !.rows = loaded.rows, !.error = loaded.error]
    /\ UNCHANGED <<pageVars, calc, extra, chores>>

\* the two entry forms side by side: the snapshot form of the finance page,
\* and the extra-payment form of the loan page given the same typed amounts
FinanceNext ==
    \/ \E value \in TypedWeeks : setWeekOf(value)
    \/ \E typed \in CheckingTyped : setChecking(typed)
    \/ \E typed \in SavingsTyped : setSavings(typed)
    \/ \E typed \in CreditCardTyped : setCreditCard(typed)
    \/ \E upsertFails, loadFails \in BOOLEAN : upsertSnapshot(upsertFails, loadFails)
    \/ \E loadFails \in BOOLEAN : financeReload(loadFails)
    \/ \E typed \in CheckingTyped : setExtraAmount(typed)
    \/ makeExtraPayment

FinanceInit ==
    /\ PageInit /\ calc = NoCall /\ extra = NoExtra
    /\ chores = ChoresStart /\ finance = FinanceStart

FinanceSpec == FinanceInit /\ [][FinanceNext]_vars

----------------------------------------------------------------------------
(* The ledger built one scheduled payment at a time *)

MaxReplay == 16

\* markPaymentCleared of the first upcoming payment run to its end with
\* nothing else under way: the table takes the insert, and the loadPayments
\* that follows brings the rows back
markFirstClearedThenLoaded ==
    /\ inflight = EmptyBag
    /\ Len(clearedPayments) < MaxReplay
    /\ Len(upcomingSchedule) >= 1
    /\ LET scheduledPayment == upcomingSchedule[1]
           row == InsertRow(scheduledPayment.date, scheduledPayment.amount,
                            scheduledPayment.principal, scheduledPayment.interest,
                            scheduledPayment.balance)
       IN  /\ store' = TableInsert(store, nextId, row)
           /\ nextId' = nextId + 1
           /\ clearedPayments' \in TableSelect(store')
    /\ alertMsg' = "" /\ consoleMsg' = ""
    /\ UNCHANGED <<pureVars, inflight, loading, saving, extraAmount, extraDate>>

\* the ledger is empty and loaded; a projection of up to MaxReplay periods
\* from PRINCIPAL at START_DATE is about to run
ReplayInit ==
    /\ store = {}
    /\ nextId = 1
    /\ inflight = EmptyBag
    /\ clearedPayments = <<>>
    /\ loading = FALSE
    /\ saving = FALSE
    /\ extraAmount = <<>>
    /\ extraDate \in {<<d>> : d \in TypedDates}
    /\ alertMsg = ""
    /\ consoleMsg = ""
    /\ extra = NoExtra
    /\ AppInit
    /\ \E c \in 0..MaxReplay :
          calc = [startBalance |-> PRINCIPAL, startDate |-> START_DATE, count |-> c,
                  schedule |-> <<>>, balance |-> PRINCIPAL, currentDate |-> START_DATE,
                  i |-> 0, returned |-> FALSE]

ReplayNext ==
    \/ markFirstClearedThenLoaded
    \/ calculateScheduleStep
    \/ calculateScheduleReturns

ReplaySpec == ReplayInit /\ [][ReplayNext]_vars

----------------------------------------------------------------------------
(* Claims *)

InsertPayloads ==
    {r.row : r \in {x \in BagToSet(inflight) :
                       x.op \in {"markPaymentCleared", "makeExtraPayment"}}}

\* a request whose answer the page takes in this step
Resumes(r) == CopiesIn(r, inflight') < CopiesIn(r, inflight) /\ r.phase # "sent"

\* C1: the stored cleared rows, ordered by payment_date ascending, have a
\* non-increasing remaining_balance (rows of one date are not compared)
C1_LedgerBalanceNonIncreasing ==
    \A a, b \in {r \in store : r.status = "cleared"} :
        a.payment_date < b.payment_date => a.remaining_balance >= b.remaining_balance

\* C2: every row the page hands to insert() has
\* amount_paid = principal_portion + interest_portion
C2_AmountIsPrincipalPlusInterest ==
    \A row \in InsertPayloads :
        row.amount_paid = row.principal_portion + row.interest_portion

\* C3: every row the page hands to insert(), and every row the table keeps,
\* has remaining_balance >= 0
C3_RemainingBalanceNotNegative ==
    /\ \A row \in InsertPayloads : row.remaining_balance >= 0
    /\ \A r \in store : r.remaining_balance >= 0

\* C3 witness: the table holds a row that left a balance and a row of an
\* extra payment larger than interest plus balance, which left 0
C3_Witness ==
    /\ \E r \in store : r.remaining_balance > 0
    /\ \E r \in store :
          /\ r.remaining_balance = 0
          /\ r.amount_paid > r.principal_portion + r.interest_portion

\* C4: when the page takes the failure of an insert or of a delete, it leaves
\* clearedPayments as it was and alerts the user
C4_FailedWriteKeepsViewAndAlerts ==
    [][\A r \in BagToSet(inflight) :
          (IsMutation(r) /\ r.phase = "error" /\ Resumes(r))
              => (clearedPayments' = clearedPayments /\ alertMsg' # "")]_vars

\* C5: when loadPayments takes an error, it reports it (an alert or a console
\* message) and leaves clearedPayments as it was
C5_FailedLoadKeepsView ==
    [][\A r \in BagToSet(inflight) :
          (r.op = "loadPayments" /\ r.phase = "error" /\ Resumes(r))
              => /\ clearedPayments' = clearedPayments
                 /\ (alertMsg' # "" \/ consoleMsg' # "")]_vars

\* an amount field that holds no positive number: empty, not starting as a
\* number does, negative, or zero
NotAPositiveAmount(s) ==
    \/ s = <<>>
    \/ Head(s) \notin Digits \cup {"."}
    \/ \A i \in 1..Len(s) : s[i] \in {"0", "."}

ExtraRequests ==
    BagCardinality(Among({r \in BagToSet(inflight) : r.op = "makeExtraPayment"}))

\* C6: while the form holds no positive amount or no date, no step sends an
\* extra-payment insert or sets saving; and the step that rejects the form
\* changes neither the table, the requests in flight, clearedPayments nor saving
C6_InvalidFormIsRejected ==
    [][/\ (NotAPositiveAmount(extraAmount) \/ extraDate = <<>>)
            => (ExtraRequests' <= ExtraRequests /\ (saving' => saving))
       /\ alertMsg' \in {"Please enter both amount and date", "Please enter a valid amount"}
            => UNCHANGED <<store, inflight, clearedPayments, saving>>]_vars

\* C6 witness: the form was submitted with a date and the amount 0, and was
\* rejected
C6_Witness ==
    /\ extraAmount = <<"0">> /\ extraDate # <<>>
    /\ alertMsg = "Please enter a valid amount"
    /\ ~saving

\* C7: at most one insert or delete of the page is in flight
C7_OneMutationInFlight ==
    BagCardinality(Among({r \in BagToSet(inflight) : IsMutation(r)})) <= 1

\* C8: once no request is in flight, clearedPayments is the table's cleared
\* rows in payment_date order
C8_QuiescentViewIsTheTable ==
    inflight = EmptyBag => clearedPayments \in TableSelect(store)

\* C9: a step of the table never changes a row it keeps; it adds exactly one
\* row for an insert in flight, or removes exactly the row a delete in flight
\* names
C9_RowsAreNeverRewritten ==
    [][/\ \A a \in store, b \in store' : a.id = b.id => a = b
       /\ \/ store' = store
          \/ /\ store \subseteq store'
             /\ Cardinality(store' \ store) = 1
             /\ \E r \in BagToSet(inflight) : IsPendingInsert(r)
          \/ \E r \in BagToSet(inflight) :
                /\ r.op = "deletePayment" /\ r.phase = "sent"
                /\ store' = {x \in store : x.id # r.id}]_vars

\* C9 witness: a delete has removed a row the page still shows, and the table
\* keeps a row dated after it
C9_Witness ==
    \E r \in BagToSet(inflight) :
        /\ r.op = "deletePayment" /\ r.phase = "ok"
        /\ \A x \in store : x.id # r.id
        /\ \E i \in 1..Len(clearedPayments) :
              /\ clearedPayments[i].id = r.id
              /\ \E x \in store : x.payment_date > clearedPayments[i].payment_date

\* the balance before entry i of the returned schedule
BalanceBefore(i) ==
    IF i = 1 THEN calc.startBalance ELSE calc.schedule[i - 1].balance

\* C10: every entry of a returned schedule has, with b the balance before it,
\* interest = b * ANNUAL_RATE / 26 (to the nearest unit),
\* principal = min(PAYMENT_AMOUNT - interest, b), amount = interest + principal
\* and balance = max(0, b - principal); from 22000 the first entry is
\* 42.31 interest, 232.69 principal, 21767.31 balance (to the cent)
C10_EntryFormulas ==
    /\ \A i \in 1..Len(calc.schedule) :
          LET e == calc.schedule[i]
              b == BalanceBefore(i)
              \* 100 * 26 / 5: interest * 2600 is compared with b * 5
              k == (100 * PERIODS_PER_YEAR) \div ANNUAL_RATE_PCT
          IN  /\ Abs(e.interest * k - b) <= k \div 2
              /\ e.principal = (IF PAYMENT_AMOUNT - e.interest < b
                                THEN PAYMENT_AMOUNT - e.interest ELSE b)
              /\ e.amount = e.interest + e.principal
              /\ e.balance = (IF b - e.principal > 0 THEN b - e.principal ELSE 0)
    /\ (calc.returned /\ calc.startBalance = 22000 * DOLLAR /\ calc.count > 0) =>
          LET e == calc.schedule[1]
          IN  /\ RoundDiv(e.interest, CENT) = 4231
              /\ RoundDiv(e.principal, CENT) = 23269
              /\ RoundDiv(e.balance, CENT) = 2176731

\* C10 witness: the schedule of UPCOMING_COUNT entries returned for 22000
C10_Witness ==
    /\ calc.returned
    /\ calc.startBalance = 22000 * DOLLAR
    /\ Len(calc.schedule) = UPCOMING_COUNT


\* whole cents of an amount, as the page prints it with toFixed(2)
Cents(x) == RoundDiv(x, CENT)

\* C11: the row built for an accepted extra payment has, to the nearest cent,
\* interest_portion = balance * (ANNUAL_RATE / 365) * days since the last
\* payment date, and exactly principal_portion = min(amount - interest,
\* balance) and remaining_balance = max(0, balance - principal); 500 paid 10
\* days after a balance of 21767.31 gives 29.82, 470.18 and 21297.13
C11_ExtraPaymentFormulas ==
    extra.returned =>
        LET row == extra.row
            days == extra.date - extra.lastDate
            balanceCents == extra.balance \div CENT
        IN  /\ row.payment_date = extra.date
            /\ row.amount_paid = extra.amount
            /\ Abs(Cents(row.interest_portion) * 100 * DAYS_PER_YEAR
                     - balanceCents * ANNUAL_RATE_PCT * days)
                  <= 50 * DAYS_PER_YEAR + DAYS_PER_YEAR
            /\ row.principal_portion =
                  Min(extra.amount - row.interest_portion, extra.balance)
            /\ row.remaining_balance =
                  Max(0, extra.balance - row.principal_portion)
            /\ (extra.amount = 500 * DOLLAR /\ days = 10
                   /\ extra.balance = 21767 * DOLLAR + 31 * CENT) =>
                  /\ Cents(row.interest_portion) = 2982
                  /\ Cents(row.principal_portion) = 47018
                  /\ Cents(row.remaining_balance) = 2129713

C11_Witness ==
    /\ extra.returned
    /\ extra.amount = 500 * DOLLAR
    /\ extra.date - extra.lastDate = 10
    /\ extra.balance = 21767 * DOLLAR + 31 * CENT
    /\ extra.row.interest_portion > 0
    /\ extra.row.remaining_balance < extra.balance


\* the schedule ended by the break of line 54, not by its count
EndedByPayoff ==
    calc.returned /\ 0 < Len(calc.schedule) /\ Len(calc.schedule) < calc.count

BalancesNonIncreasing ==
    \A i \in 1..(Len(calc.schedule) - 1) :
        calc.schedule[i + 1].balance <= calc.schedule[i].balance

\* the balance whose bi-weekly interest equals PAYMENT_AMOUNT (143000)
FlatBalance ==
    (PAYMENT_AMOUNT \div ANNUAL_RATE_PCT) * (100 * PERIODS_PER_YEAR)

\* C12 as stated: for every startBalance and count the balance of consecutive
\* entries of one call never increases, and a schedule that ended by payoff
\* ends on a balance of exactly 0
C12_BalanceNonIncreasing ==
    /\ BalancesNonIncreasing
    /\ EndedByPayoff => calc.schedule[Len(calc.schedule)].balance = 0

\* C12 amended: the same for every startBalance whose bi-weekly interest is
\* below PAYMENT_AMOUNT (a balance below 143000); above it the principal of
\* every entry is negative and the balance grows from entry to entry
C12_BalanceNonIncreasingWhenInterestCovered ==
    /\ calc.startBalance < FlatBalance => BalancesNonIncreasing
    /\ EndedByPayoff => calc.schedule[Len(calc.schedule)].balance = 0
    /\ calc.startBalance > FlatBalance =>
          \A i \in 1..(Len(calc.schedule) - 1) :
              calc.schedule[i + 1].balance > calc.schedule[i].balance

\* C12 witness: the 1000-entry projection from 22000 ended by payoff
C12_Witness ==
    /\ EndedByPayoff
    /\ calc.startBalance = PRINCIPAL
    /\ calc.count = FULL_COUNT
    /\ Len(calc.schedule) > 2
    /\ calc.schedule[1].balance > calc.schedule[2].balance


\* n / d rounded up, for n >= 0 and d > 0
CeilDiv(n, d) == (n + d - 1) \div d

\* a returned 1000-entry projection of a positive balance whose bi-weekly
\* interest is below PAYMENT_AMOUNT (it then is at every later step too)
FullProjectionReturned ==
    /\ calc.returned
    /\ calc.count = FULL_COUNT
    /\ 0 < calc.startBalance
    /\ calc.startBalance < FlatBalance

\* C13 as stated: such a projection ends by payoff, its last entry having
\* balance 0, within startBalance / PAYMENT_AMOUNT entries (rounded up)
C13_PayoffWithinBalanceOverPayment ==
    FullProjectionReturned =>
        /\ Len(calc.schedule) > 0
        /\ calc.schedule[Len(calc.schedule)].balance = 0
        /\ Len(calc.schedule) <= CeilDiv(calc.startBalance, PAYMENT_AMOUNT)

\* C13 amended: every entry takes at most PAYMENT_AMOUNT and at least
\* PAYMENT_AMOUNT minus the first entry's interest off the balance, so payoff
\* needs at least startBalance / PAYMENT_AMOUNT entries and at most
\* startBalance / (PAYMENT_AMOUNT - first interest); a projection whose count
\* reaches that upper bound ends by payoff within it
C13_PayoffWithinBalanceOverFirstPrincipal ==
    FullProjectionReturned =>
        /\ Len(calc.schedule) > 0
        /\ LET n == Len(calc.schedule)
               upper == CeilDiv(calc.startBalance,
                                PAYMENT_AMOUNT - calc.schedule[1].interest)
           IN  /\ upper <= FULL_COUNT =>
                      /\ calc.schedule[n].balance = 0
                      /\ n <= upper
               /\ calc.schedule[n].balance = 0 =>
                      n >= CeilDiv(calc.startBalance, PAYMENT_AMOUNT)

\* C13 witness: the projection from 22000 is paid off after more than the
\* 80 entries of 22000 / 275
C13_Witness ==
    /\ FullProjectionReturned
    /\ calc.startBalance = PRINCIPAL
    /\ calc.schedule[Len(calc.schedule)].balance = 0
    /\ Len(calc.schedule) > CeilDiv(PRINCIPAL, PAYMENT_AMOUNT)


\* C14: a call returns at most count entries; it returns fewer than count
\* only when the balance reached 0 or less, none at all when startBalance is
\* 0 or less, and no entry follows an entry whose balance is 0
C14_AtMostCountStopsAtPayoff ==
    /\ Len(calc.schedule) <= calc.count
    /\ (calc.returned /\ Len(calc.schedule) < calc.count) =>
          \/ calc.startBalance <= 0
          \/ /\ Len(calc.schedule) > 0
             /\ calc.schedule[Len(calc.schedule)].balance <= 0
    /\ calc.startBalance <= 0 => calc.schedule = <<>>
    /\ \A i \in 1..(Len(calc.schedule) - 1) : calc.schedule[i].balance # 0

\* C14 witness: one entry returned for a count of 2, the balance of 100
\* being paid off by it
C14_Witness ==
    /\ calc.returned
    /\ calc.count = 2
    /\ calc.startBalance = 100 * DOLLAR
    /\ Len(calc.schedule) = 1
    /\ calc.schedule[1].balance = 0


\* C15: the i-th entry of a schedule, i counted from 0, is dated startDate
\* plus 14 * i days: the first is dated startDate and consecutive entries
\* are 14 days apart
C15_EntryDates ==
    /\ \A i \in 1..Len(calc.schedule) :
          calc.schedule[i].date = calc.startDate + 14 * (i - 1)
    /\ \A i \in 1..(Len(calc.schedule) - 1) :
          calc.schedule[i + 1].date - calc.schedule[i].date = 14

\* C15 witness: 20 entries returned for a start date 10 days after
\* START_DATE, the last one 19 * 14 days later
C15_Witness ==
    /\ calc.returned
    /\ calc.startDate = START_DATE + 10
    /\ Len(calc.schedule) = UPCOMING_COUNT
    /\ calc.schedule[UPCOMING_COUNT].date = START_DATE + 10 + 266


\* C16: with no cleared row loaded, the page shows remainingBalance =
\* PRINCIPAL, totalInterestPaid = 0, totalPrincipalPaid = 0 and
\* nextPaymentDate = START_DATE, and its first upcoming payment is dated
\* START_DATE
C16_EmptyLedgerState ==
    clearedPayments = <<>> =>
        /\ remainingBalance = 22000 * DOLLAR
        /\ totalInterestPaid = 0
        /\ totalPrincipalPaid = 0
        /\ nextPaymentDate = START_DATE
        /\ Len(upcomingSchedule) = UPCOMING_COUNT
        /\ upcomingSchedule[1].date = START_DATE

\* C16 witness: the first load has returned no row from the empty table
C16_Witness ==
    /\ clearedPayments = <<>>
    /\ ~loading
    /\ store = {}
    /\ inflight = EmptyBag

\* the rows loaded, as a set (their ids differ)
LoadedRows == {clearedPayments[i] : i \in 1..Len(clearedPayments)}

\* the sum of field f over a set of rows
RECURSIVE SumOfInterest(_)
SumOfInterest(S) ==
    IF S = {} THEN 0
    ELSE LET r == CHOOSE x \in S : TRUE
         IN  r.interest_portion + SumOfInterest(S \ {r})

RECURSIVE SumOfPrincipal(_)
SumOfPrincipal(S) ==
    IF S = {} THEN 0
    ELSE LET r == CHOOSE x \in S : TRUE
         IN  r.principal_portion + SumOfPrincipal(S \ {r})

\* C17: with rows loaded, remainingBalance is the remaining_balance of a row
\* of the latest payment_date, which is the last row of the list,
\* nextPaymentDate is that date plus 14 days, and totalInterestPaid and
\* totalPrincipalPaid are the sums of interest_portion and principal_portion
\* over the loaded rows
C17_LoadedLedgerState ==
    clearedPayments # <<>> =>
        LET last == clearedPayments[Len(clearedPayments)]
        IN  /\ \A r \in LoadedRows : r.payment_date <= last.payment_date
            /\ remainingBalance = last.remaining_balance
            /\ nextPaymentDate = last.payment_date + 14
            /\ Cardinality(LoadedRows) = Len(clearedPayments)
            /\ totalInterestPaid = SumOfInterest(LoadedRows)
            /\ totalPrincipalPaid = SumOfPrincipal(LoadedRows)

\* C17 witness: two rows of different dates are loaded, the later one with
\* the smaller balance
C17_Witness ==
    /\ Len(clearedPayments) = 2
    /\ clearedPayments[1].payment_date < clearedPayments[2].payment_date
    /\ clearedPayments[1].remaining_balance > clearedPayments[2].remaining_balance
    /\ remainingBalance = clearedPayments[2].remaining_balance
    /\ totalPrincipalPaid > clearedPayments[2].principal_portion


\* C18: the schedule is a function of the arguments of the call alone, and
\* the upcoming schedule of 20 entries is the first 20 entries (all, if
\* there are fewer) of the 1000-entry projection from the same balance and
\* date
C18_UpcomingIsPrefixOfProjection ==
    /\ (calc.returned /\ calc.count <= UPCOMING_COUNT) =>
          calc.schedule =
              calculateSchedule(calc.startBalance, calc.startDate, calc.count)
    /\ (calc.returned /\ calc.count = FULL_COUNT) =>
          LET n == IF Len(calc.schedule) < 20 THEN Len(calc.schedule) ELSE 20
          IN  calculateSchedule(calc.startBalance, calc.startDate, UPCOMING_COUNT)
                  = SubSeq(calc.schedule, 1, n)

\* C18 witness: a projection from 22000 that is longer than the upcoming
\* schedule of the same balance
C18_Witness ==
    /\ calc.returned
    /\ calc.count = FULL_COUNT
    /\ calc.startBalance = PRINCIPAL
    /\ Len(calc.schedule) > UPCOMING_COUNT
    /\ Len(calculateSchedule(calc.startBalance, calc.startDate, UPCOMING_COUNT))
          = UPCOMING_COUNT


\* the step sends the insert r of markPaymentCleared
MarkSent(r) ==
    /\ r.op = "markPaymentCleared" /\ r.phase = "sent"
    /\ CopiesIn(r, inflight') > CopiesIn(r, inflight)

\* the step is the table's execution of the insert r of markPaymentCleared
MarkStored(r) ==
    /\ r.op = "markPaymentCleared" /\ r.phase = "sent"
    /\ CopiesIn(r, inflight') < CopiesIn(r, inflight)
    /\ store' # store

\* the object markPaymentCleared passes to insert() is entry s, field by field
PayloadIsEntry(row, s) ==
    /\ row.payment_date = s.date
    /\ row.amount_paid = s.amount
    /\ row.principal_portion = s.principal
    /\ row.interest_portion = s.interest
    /\ row.remaining_balance = s.balance
    /\ row.status = "cleared"

\* x as the table keeps it: the multiple of a cent nearest to x
KeptToTheCent(kept, x) == kept % CENT = 0 /\ Abs(kept - x) * 2 <= CENT

\* C19 as stated: markPaymentCleared(s) inserts exactly one row, whose
\* payment_date, amount_paid, principal_portion, interest_portion and
\* remaining_balance equal s.date, s.amount, s.principal, s.interest and
\* s.balance, with status 'cleared', for whichever upcoming entry s is
\* checked
C19_MarkedRowEqualsEntry ==
    [][/\ \A r \in BagToSet(inflight') :
             MarkSent(r) =>
                 \E i \in 1..Len(upcomingSchedule) :
                     PayloadIsEntry(r.row, upcomingSchedule[i])
       /\ \A r \in BagToSet(inflight) :
             MarkStored(r) =>
                 \E new \in store' \ store :
                     /\ store' = store \cup {new}
                     /\ new.payment_date = r.row.payment_date
                     /\ new.amount_paid = r.row.amount_paid
                     /\ new.principal_portion = r.row.principal_portion
                     /\ new.interest_portion = r.row.interest_portion
                     /\ new.remaining_balance = r.row.remaining_balance
                     /\ new.status = "cleared"]_vars

\* C19 amended: the object passed to insert() equals s field by field, with
\* status 'cleared'; when the insert succeeds the table gains exactly one
\* row, with the date of s and each amount of s rounded to the cent by its
\* NUMERIC(10, 2) column
C19_MarkedRowEqualsEntryToTheCent ==
    [][/\ \A r \in BagToSet(inflight') :
             MarkSent(r) =>
                 \E i \in 1..Len(upcomingSchedule) :
                     PayloadIsEntry(r.row, upcomingSchedule[i])
       /\ \A r \in BagToSet(inflight) :
             MarkStored(r) =>
                 \E new \in store' \ store :
                     /\ store' = store \cup {new}
                     /\ new.payment_date = r.row.payment_date
                     /\ KeptToTheCent(new.amount_paid, r.row.amount_paid)
                     /\ KeptToTheCent(new.principal_portion, r.row.principal_portion)
                     /\ KeptToTheCent(new.interest_portion, r.row.interest_portion)
                     /\ KeptToTheCent(new.remaining_balance, r.row.remaining_balance)
                     /\ new.status = "cleared"]_vars

\* C19 witness: the table keeps the row of the first scheduled payment,
\* 275.00 = 232.69 + 42.31 leaving 21767.31, dated START_DATE
C19_Witness ==
    \E new \in store :
        /\ new.payment_date = START_DATE
        /\ new.amount_paid = 275 * DOLLAR
        /\ new.principal_portion = 23269 * CENT
        /\ new.interest_portion = 4231 * CENT
        /\ new.remaining_balance = 2176731 * CENT
        /\ new.status = "cleared"


\* C20: every row of clearedPayments has status 'cleared', every row the
\* page hands to insert() has status 'cleared', and the table holds no
\* 'pending' row but the one another writer put there
C20_OnlyClearedRows ==
    /\ \A i \in 1..Len(clearedPayments) : clearedPayments[i].status = "cleared"
    /\ \A r \in BagToSet(inflight) :
          /\ r.op \in {"markPaymentCleared", "makeExtraPayment"} =>
                r.row.status = "cleared"
          /\ \A i \in 1..Len(r.data) : r.data[i].status = "cleared"
    /\ \A row \in store : row.status # "cleared" => row = PendingRow

\* C20 witness: the table holds the pending row and a row the page
\* inserted, and the page has loaded the inserted row alone
C20_Witness ==
    /\ PendingRow \in store
    /\ Cardinality(store) = 2
    /\ Len(clearedPayments) = 1
    /\ clearedPayments[1] \in store
    /\ inflight = EmptyBag


\* C21: a payment that does not exceed the accrued interest gives a
\* principal of 0 or less, taken as it is: in a schedule from a balance whose
\* bi-weekly interest reaches PAYMENT_AMOUNT every entry has principal =
\* PAYMENT_AMOUNT - interest <= 0 and a balance not below the one before, and
\* exactly count entries are returned; an extra payment of no more than the
\* accrued interest gets principal_portion = amount - interest <= 0 and
\* remaining_balance = balance - principal >= balance
C21_PaymentWithinInterest ==
    /\ calc.startBalance >= FlatBalance =>
          /\ \A i \in 1..Len(calc.schedule) :
                LET e == calc.schedule[i]
                IN  /\ e.interest >= PAYMENT_AMOUNT
                    /\ e.principal = PAYMENT_AMOUNT - e.interest
                    /\ e.principal <= 0
                    /\ e.balance = BalanceBefore(i) - e.principal
                    /\ e.balance >= BalanceBefore(i)
          /\ calc.returned => Len(calc.schedule) = calc.count
    /\ (extra.returned /\ extra.amount <= extra.row.interest_portion) =>
          /\ extra.row.amount_paid = extra.amount
          /\ extra.row.principal_portion = extra.amount - extra.row.interest_portion
          /\ extra.row.principal_portion <= 0
          /\ extra.row.remaining_balance = extra.balance - extra.row.principal_portion
          /\ extra.row.remaining_balance >= extra.balance

\* C21 witness: 1000 entries returned from 150000, the balance having grown
C21_Witness ==
    /\ calc.returned
    /\ calc.startBalance = 150000 * DOLLAR
    /\ Len(calc.schedule) = FULL_COUNT
    /\ calc.schedule[FULL_COUNT].balance > calc.startBalance
    /\ calc.schedule[1].principal < 0

\* C21 witness of the extra payment: 1 paid on 22000 after 10 days or more
C21_WitnessExtra ==
    /\ extra.returned
    /\ extra.amount = DOLLAR
    /\ extra.balance = PRINCIPAL
    /\ extra.row.principal_portion < 0
    /\ extra.row.remaining_balance > PRINCIPAL


\* C22: the scheduled entry on a balance charges balance * ANNUAL_RATE / 26
\* whatever the days since the last row, the extra payment on the same
\* balance charges balance * ANNUAL_RATE / 365 * days (to the nearest cent),
\* and 14 days after the last payment the two differ on a positive balance,
\* the extra payment being charged less
C22_TwoInterestConventions ==
    (extra.returned /\ extra.balance > 0) =>
        LET days == extra.date - extra.lastDate
            scheduled == calculateSchedule(extra.balance, extra.date, 1)[1]
            k == (100 * PERIODS_PER_YEAR) \div ANNUAL_RATE_PCT
        IN  /\ Abs(scheduled.interest * k - extra.balance) <= k \div 2
            /\ Abs(Cents(extra.row.interest_portion) * 100 * DAYS_PER_YEAR
                     - (extra.balance \div CENT) * ANNUAL_RATE_PCT * days)
                  <= 50 * DAYS_PER_YEAR + DAYS_PER_YEAR
            /\ days = 14 =>
                  /\ extra.row.interest_portion # scheduled.interest
                  /\ extra.row.interest_portion < scheduled.interest

\* C22 witness: on 22000 the extra payment after 14 days is charged 42.19
\* where the scheduled payment is charged 42.31
C22_Witness ==
    /\ extra.returned
    /\ extra.balance = PRINCIPAL
    /\ extra.date - extra.lastDate = 14
    /\ Cents(extra.row.interest_portion) = 4219
    /\ Cents(calculateSchedule(PRINCIPAL, extra.date, 1)[1].interest) = 4231


\* the 25 (area, task) combinations
Combinations ==
    {<<AREAS[a], TASKS[t]>> : a \in 1..Len(AREAS), t \in 1..Len(TASKS)}

\* the loaded completions of a combination
LoadedOf(area, task) ==
    {chores.completions[i] : i \in {j \in 1..Len(chores.completions) :
        chores.completions[j].area = area /\ chores.completions[j].task = task}}

\* the time of the most recent loaded completion of a combination
MostRecent(area, task) ==
    LET C == LoadedOf(area, task)
    IN  (CHOOSE c \in C : \A d \in C : c.completed_at >= d.completed_at).completed_at

\* whole days since the most recent loaded completion; 1000 if there is none
DaysSince(area, task) ==
    IF LoadedOf(area, task) = {} THEN 1000
    ELSE (chores.now - MostRecent(area, task)) \div DAY

\* C23: getTopPriorities returns 5 distinct combinations out of the 25, in
\* order of non-increasing days since the last completion with the
\* never-completed ones first, and no combination left out has more days
\* since its last completion than one that is included
C23_TopFivePriorities ==
    LET top == getTopPriorities
        included == {<<top[i].area, top[i].task>> : i \in 1..Len(top)}
    IN  /\ Len(top) = 5
        /\ Cardinality(Combinations) = 25
        /\ included \subseteq Combinations
        /\ Cardinality(included) = 5
        /\ \A i, j \in 1..Len(top) :
              i < j => DaysSince(top[i].area, top[i].task)
                         >= DaysSince(top[j].area, top[j].task)
        /\ \A out \in Combinations \ included, in \in included :
              DaysSince(out[1], out[2]) <= DaysSince(in[1], in[2])

\* C23 witness: every combination has been completed, and the first of the
\* five was completed longer ago than the fifth
C23_Witness ==
    /\ \A c \in Combinations : LoadedOf(c[1], c[2]) # {}
    /\ chores.changes > 0
    /\ DaysSince(getTopPriorities[1].area, getTopPriorities[1].task)
          > DaysSince(getTopPriorities[5].area, getTopPriorities[5].task)

CoercedToCents(typed, cents) ==
    IF Number(typed).nan THEN cents = 0
    ELSE 2 * Abs(cents * CENT - Number(typed).val) <= CENT

Submitted == finance.submits' = finance.submits + 1

\* C25: every submission of the snapshot form issues an upsert, whose row
\* carries the week of the form and, for each balance field, 0 cents when the
\* field is not a number and the field's value rounded to cents otherwise,
\* and that row is what the table holds for the week once the upsert has
\* succeeded; whereas the loan form, while its amount is not a number,
\* sends no insert and leaves the table alone
C25_SnapshotCoercesLoanRejects ==
    [][/\ Submitted =>
            /\ finance.upserts' = finance.upserts + 1
            /\ finance.sent'.week_of = finance.weekOf
            /\ CoercedToCents(finance.checking, finance.sent'.checking_cents)
            /\ CoercedToCents(finance.savings, finance.sent'.savings_cents)
            /\ CoercedToCents(finance.creditCard, finance.sent'.credit_card_cents)
            /\ \/ finance.snapshots' = finance.snapshots
               \/ finance.sent' \in finance.snapshots'
       /\ (extraAmount = <<>> \/ parseFloat(extraAmount).nan)
            => /\ ExtraRequests' <= ExtraRequests
               /\ store' = store
               /\ saving' = saving]_vars

\* C25 witness: a snapshot whose checking field was "a" and whose credit card
\* field was "$5" is stored with 0 cents for both and 250 cents of savings,
\* and the loan form, given an amount that is not a number, has alerted
C25_Witness ==
    /\ \E r \in finance.snapshots :
          /\ r.checking_cents = 0 /\ r.credit_card_cents = 0
          /\ r.savings_cents = 250
    /\ finance.sent \in finance.snapshots
    /\ finance.rows = <<finance.sent>>
    /\ extraAmount = <<>>
    /\ alertMsg = "Please enter both amount and date"


\* C26: once nothing is in flight, the remainingBalance shown is PRINCIPAL
\* minus totalPrincipalPaid, to within the cent that each stored row's
\* rounding may move it
C26_BalanceIsPrincipalLessPaid ==
    inflight = EmptyBag =>
        Abs(remainingBalance - (PRINCIPAL - totalPrincipalPaid))
            <= Len(clearedPayments) * CENT


\* the rows of the table that markPaymentCleared created: those of the
\* scheduled amount (no amount typed into the extra-payment form is 275)
MarkedRows == {r \in store : r.amount_paid = PAYMENT_AMOUNT}

\* C27: no two rows created by markPaymentCleared have the same payment_date
C27_ScheduledPaymentRecordedOnce ==
    \A r, q \in MarkedRows : r.payment_date = q.payment_date => r.id = q.id


\* C28: every date of the upcoming schedule is START_DATE plus a whole
\* number of periods
C28_UpcomingOnTheGrid ==
    \A i \in 1..Len(upcomingSchedule) :
        /\ upcomingSchedule[i].date >= START_DATE
        /\ (upcomingSchedule[i].date - START_DATE) % PERIOD_DAYS = 0

\* C29: every row the page has inserted has a non-negative interest_portion
\* and a principal_portion of at most its amount_paid
C29_InterestNotNegative ==
    \A r \in store :
        /\ r.interest_portion >= 0
        /\ r.principal_portion <= r.amount_paid

\* row r of the ledger is entry s of a projection, each amount to within a
\* cent
RowIsEntryWithinACent(r, s) ==
    /\ r.payment_date = s.date
    /\ Abs(r.amount_paid - s.amount) <= CENT
    /\ Abs(r.principal_portion - s.principal) <= CENT
    /\ Abs(r.interest_portion - s.interest) <= CENT
    /\ Abs(r.remaining_balance - s.balance) <= CENT

\* C30: after the first upcoming payment has been marked cleared k times from
\* an empty ledger, each insert followed by its reload, the k rows are, in
\* order, the k entries of calculateSchedule(PRINCIPAL, START_DATE, k), every
\* amount equal to within a cent
C30_LedgerIsTheProjection ==
    LET k == Len(clearedPayments)
        projected == calculateSchedule(PRINCIPAL, START_DATE, k)
    IN  /\ Len(projected) = k
        /\ \A i \in 1..k : RowIsEntryWithinACent(clearedPayments[i], projected[i])


\* the second half of C30, which holds: the n entries projected so far,
\* followed by the projection of the remaining m periods from the balance
\* and date reached, are the projection of n + m periods
ProjectionComposes ==
    calc.schedule \o calculateSchedule(calc.balance, calc.currentDate,
                                       calc.count - calc.i)
        = calculateSchedule(calc.startBalance, calc.startDate, calc.count)

============================================================================
